---- MODULE Spec2Model ----
(***************************************************************************)
(* TLE9201SG H-bridge driver on the AVR64DD32                              *)
(* (src/AVR64DD32-TLE9201SG/TLE9201SG.c and the peripherals it uses).      *)
(*                                                                         *)
(* The driver is modelled at the granularity of its busy-waits: every SPI  *)
(* transfer is a send step (SS low, SPI0.DATA written), a hardware step    *)
(* (the byte is exchanged with the device, RXCIF rises) and a step that    *)
(* runs once the wait loop sees RXCIF.  The TLE9201SG itself answers every *)
(* transfer with the result of the previous transfer's command.            *)
(***************************************************************************)
EXTENDS Integers, Sequences, FiniteSets, TLC

VARIABLES
    TLE9201SG,   \* the global TLE9201SG_DATA struct
    firsttime,   \* static uint8_t firsttime of TLE9201SG_Read
    pc,          \* where the driver code stands
    frame,       \* the running TLE9201SG_Write / TLE9201SG_Read call: command, loop counter, return label
    SPI0,        \* SPI0.DATA, the RXCIF flag, the byte being shifted out (-1: none) and the class of DATA
    PA7,         \* slave select pin level (PORTA.OUT bit 7)
    PORTD_OUT,   \* PORTD.OUT (PD4 PWM, PD5 DIR, PD6 DIS)
    TCD0,        \* timer/counter D: CTRLA.ENABLE and STATUS.ENRDY
    dev,         \* the TLE9201SG device: control, diagnosis, revision registers and the latched response
    op,          \* the public operation running, or the last one that returned
    prevOp,      \* the public operation called before op
    log,         \* bus and cache events of op, in order
    src,         \* register class of the response last stored in .control and in .diag
    inits,       \* number of calls of TLE9201SG_Mode_init so far
    main,        \* where main stands (at), and the levels of PF5 and PF6 it last read
    PORTF_IN,    \* PORTF.IN: the levels of the START/STOP line PF5 and the DIR line PF6
    dirReq,      \* argument of the last TLE9201SG_DIR in SPI mode not yet followed by a transfer (-1: none)
    procd,       \* the last two frames the device took in: command and its diagnosis register then
    CLKCTRL      \* the main clock in Hz, as CLKCTRL.OSCHFCTRLA selects it and CLOCK_read returns it

vars == <<TLE9201SG, firsttime, pc, frame, SPI0, PA7, PORTD_OUT, TCD0, dev, op, prevOp, log, src, inits,
          main, PORTF_IN, dirReq, procd, CLKCTRL>>

----------------------------------------------------------------------------
(* Program constants                                                        *)

TLE9201SG_MODE_SPI == 1
TLE9201SG_MODE_PWMDIR == 0
RD_DIA == 0
RES_DIA == 128
RD_REV == 32
RD_CTRL == 96
WR_CTRL == 224
WR_CTRL_RD_DIA == 192
PIN5_bp == 5
PIN6_bm == 64

(* Model values                                                             *)

\* how many times the caller may run TLE9201SG_Mode_init
MaxInits == 2

\* uint8_t values taken for the argument of TLE9201SG_DIR(uint8_t direction)
\* where the caller is not held to 0 and 1
DirValues == {0, 1, 18}
\* diagnosis register contents the device may show (low nibble 0xF: no failure)
DiagValues == {255, 245, 240}
\* control register contents of the device before the driver first talks to it
DevCtrlInit == {0, 21}
\* revision register of the device
RevValues == {34}

Bit(v, k) == (v \div (2 ^ k)) % 2

\* uint8_t truncation of an int expression
U8(v) == v % 256

----------------------------------------------------------------------------
(* Register codec                                                           *)

Mut_Sort_Diagnosis_Latch(s) ==
    LET d == s.diag IN
    [s EXCEPT !.EN = Bit(d, 7), !.OT = Bit(d, 6), !.TV = Bit(d, 5), !.CL = Bit(d, 4),
              !.DIA = d % 16,
              !.Fault = IF d % 16 # 15 THEN d % 16 ELSE s.Fault]

Mut_Sort_Diagnosis_Swap(s) ==
    LET d == s.diag IN
    [s EXCEPT !.EN = Bit(d, 7), !.OT = Bit(d, 5), !.TV = Bit(d, 6), !.CL = Bit(d, 4),
              !.DIA = d % 16,
              !.Fault = IF d % 16 # 15 THEN d % 16 ELSE 0]

\* void TLE9201SG_Sort_Diagnosis()
TLE9201SG_Sort_Diagnosis(s) ==
    LET d == s.diag IN
    [s EXCEPT !.EN = Bit(d, 7), !.OT = Bit(d, 6), !.TV = Bit(d, 5), !.CL = Bit(d, 4),
              !.DIA = d % 16,
              !.Fault = IF d % 16 # 15 THEN d % 16 ELSE 0]

Mut_Sort_Control_Shift(s) ==
    LET c == s.control IN
    [s EXCEPT !.CMD = c \div 32, !.OLDIS = Bit(c, 4), !.SIN = Bit(c, 3),
              !.SEN = Bit(c, 1), !.SDIR = Bit(c, 2), !.SPWM = Bit(c, 0)]

\* void TLE9201SG_Sort_Control_()
TLE9201SG_Sort_Control_(s) ==
    LET c == s.control IN
    [s EXCEPT !.CMD = c \div 32, !.OLDIS = Bit(c, 4), !.SIN = Bit(c, 3),
              !.SEN = Bit(c, 2), !.SDIR = Bit(c, 1), !.SPWM = Bit(c, 0)]

\* the byte TLE9201SG_Write puts into SPI0.DATA (an 8-bit register)
WriteByte(command, s) ==
    U8(command + s.OLDIS * 16 + s.SIN * 8 + s.SEN * 4 + s.SDIR * 2 + s.SPWM)

----------------------------------------------------------------------------
(* The device: every response carries the result of the previous command    *)

CommandOf(byte) == (byte \div 32) * 32

\* register class of the result of a command
ClassOf(command) ==
    IF command \in {WR_CTRL, RD_CTRL} THEN "ctrl"
    ELSE IF command = RD_REV THEN "rev"
    ELSE "dia"

\* the device takes in one byte: it updates its registers and latches the
\* result, which it shifts out during the next transfer
DeviceProcess(d, byte) ==
    LET c == CommandOf(byte)
        ctrl == IF c \in {WR_CTRL, WR_CTRL_RD_DIA} THEN byte % 32 ELSE d.ctrl
        dia == IF c = RES_DIA THEN (d.dia \div 16) * 16 + 15 ELSE d.dia
        cls == ClassOf(c)
    IN  [d EXCEPT !.ctrl = ctrl, !.dia = dia, !.cls = cls,
                  !.resp = IF cls = "ctrl" THEN ctrl
                           ELSE IF cls = "rev" THEN d.rev
                           ELSE d.dia]

----------------------------------------------------------------------------
(* Driver functions as updates of the struct and of the peripherals         *)

\* .revision .. .mode of TLE9201SGVar.h; the members it does not name are zero
ResetData ==
    [revision |-> 0, diag |-> 0, control |-> 0,
     EN |-> 0, OT |-> 0, TV |-> 0, CL |-> 0, DIA |-> 0, Fault |-> 0,
     CMD |-> 0, OLDIS |-> 0, SIN |-> 0, SEN |-> 0, SDIR |-> 0, SPWM |-> 0,
     mode |-> TLE9201SG_MODE_PWMDIR, pwm_freq |-> 0, duty_cycle |-> 0, on |-> 0, off |-> 0]

Mut_Write_Store_Keep(command, data, s) == s

\* TLE9201SG_Write after the wait: the response goes to .control or to .diag
Write_Store(command, data, s) ==
    IF command = WR_CTRL
    THEN TLE9201SG_Sort_Control_([s EXCEPT !.control = data])
    ELSE TLE9201SG_Sort_Diagnosis([s EXCEPT !.diag = data])

Mut_ReadRounds_One(first) == 1

\* TLE9201SG_Read: for (uint8_t i = 0; i < 3 - firsttime; i++)
ReadRounds(first) == 3 - first

Mut_Mode_init_SPI_ModeOnly(mode, s) == [s EXCEPT !.mode = mode]

\* TLE9201SG_Mode_init, SPI branch, up to the call of TLE9201SG_Write
Mode_init_SPI(mode, s) ==
    [s EXCEPT !.mode = mode, !.SIN = 1, !.OLDIS = 0, !.SEN = 0]

\* TLE9201SG_ON, SPI branch
ON_SPI(s) == [s EXCEPT !.SEN = 1]

Mut_ON_PWMDIR_Noop(out) == out

\* TLE9201SG_ON, PWM/DIR branch: PORTD.OUTCLR = PIN6_bm
ON_PWMDIR(out) == out - Bit(out, 6) * PIN6_bm

Mut_OFF_SPI_Noop(s) == s

\* TLE9201SG_OFF, SPI branch
OFF_SPI(s) == [s EXCEPT !.SEN = 0]

Mut_OFF_PWMDIR_Noop(out) == out

\* TLE9201SG_OFF, PWM/DIR branch after TCD0_OFF: PORTD.OUTSET = PIN6_bm
OFF_PWMDIR(out) == out + (1 - Bit(out, 6)) * PIN6_bm

Mut_DIR_SPI_Noop(direction, s) == s

\* TLE9201SG_DIR, SPI branch: the uint8_t argument is stored as it is
DIR_SPI(direction, s) == [s EXCEPT !.SDIR = direction]

\* TLE9201SG_DIR, PWM/DIR branch: PORTD.OUT = (direction << PIN5_bp)
DIR_PWMDIR(direction) == U8(direction * (2 ^ PIN5_bp))

Mut_START_SPI_on_Mode(s) == [s EXCEPT !.SPWM = 1, !.mode = TLE9201SG_MODE_PWMDIR]

\* TLE9201SG_START, SPI branch, before the first write
START_SPI_on(s) == [s EXCEPT !.SPWM = 1]

Mut_START_SPI_off_Noop(s) == s

\* TLE9201SG_START, SPI branch, before the second write
START_SPI_off(s) == [s EXCEPT !.SPWM = 0]

\* TCD0_ON after the wait: TCD0.CTRLA |= TCD_ENABLE_bm
TCD0_ON(t) == [ENABLE |-> 1, ENRDY |-> (t.ENABLE = 1)]

Mut_TCD0_OFF_Noop(t) == t

\* TCD0_OFF after the wait: TCD0.CTRLA &= ~TCD_ENABLE_bm
TCD0_OFF(t) == [ENABLE |-> 0, ENRDY |-> (t.ENABLE = 0)]

\* TCD0_init after the wait: TCD0.CTRLA = clock select | prescaler, enable bit 0
TCD0_init(t) == [ENABLE |-> 0, ENRDY |-> (t.ENABLE = 0)]

Event(e, v) == [e |-> e, v |-> v]

----------------------------------------------------------------------------
(* Initial state: the struct as TLE9201SGVar.h initialises it, the          *)
(* peripherals after GPIO_init, the device in a state the driver does not   *)
(* know                                                                     *)

NoFrame == [command |-> 0, i |-> 0, ret |-> "idle"]

DevInit ==
    {[ctrl |-> c, dia |-> d, rev |-> r, cls |-> k,
      resp |-> IF k = "ctrl" THEN c ELSE IF k = "rev" THEN r ELSE d] :
        c \in DevCtrlInit, d \in DiagValues, r \in RevValues,
        k \in {"ctrl", "rev", "dia"}}

\* main: TLE9201SG.pwm_freq = 20000; TLE9201SG.duty_cycle = 50.0;
MainConfig(s) == [s EXCEPT !.pwm_freq = 20000, !.duty_cycle = 50]

NoProc == [cmd |-> -1, dia |-> -1]

\* CLOCK_INHF_clock_init: CLKCTRL_FRQSEL_24M_gc
F_OSCHF == 24000000

\* the peripherals after GPIO_init, the device, and the bookkeeping
InitRest ==
    /\ firsttime = 0
    /\ pc = "idle"
    /\ frame = NoFrame
    /\ SPI0 = [DATA |-> 0, RXCIF |-> FALSE, TX |-> -1, cls |-> "reset"]
    /\ PA7 = 0
    /\ PORTD_OUT = 0
    /\ TCD0 \in {[ENABLE |-> 0, ENRDY |-> r] : r \in BOOLEAN}
    /\ dev \in DevInit
    /\ op = "none"
    /\ prevOp = "none"
    /\ log = <<>>
    /\ src = [control |-> "reset", diag |-> "reset"]
    /\ inits = 0
    /\ dirReq = -1
    /\ procd = <<NoProc, NoProc>>
    /\ CLKCTRL = F_OSCHF

Init ==
    /\ TLE9201SG = MainConfig(ResetData)
    /\ main = [at |-> "any", pf5 |-> 1, pf6 |-> 1]
    /\ PORTF_IN = [PF5 |-> 1, PF6 |-> 1]
    /\ InitRest

----------------------------------------------------------------------------
(* Hardware and device steps                                                *)

\* the SPI peripheral finishes the exchange of one byte with the device
SPI_Complete ==
    /\ SPI0.TX # -1
    /\ SPI0' = [DATA |-> dev.resp, RXCIF |-> TRUE, TX |-> -1, cls |-> dev.cls]
    /\ dev' = DeviceProcess(dev, SPI0.TX)
    /\ procd' = <<procd[2], [cmd |-> CommandOf(SPI0.TX), dia |-> dev.dia]>>
    /\ UNCHANGED <<TLE9201SG, firsttime, pc, frame, PA7, PORTD_OUT, TCD0, op, prevOp, log, src, inits, main, PORTF_IN, dirReq, CLKCTRL>>

\* the timer finishes synchronising an enable change: STATUS.ENRDY rises
TCD_Ready ==
    /\ ~TCD0.ENRDY
    /\ TCD0' = [TCD0 EXCEPT !.ENRDY = TRUE]
    /\ UNCHANGED <<TLE9201SG, firsttime, pc, frame, SPI0, PA7, PORTD_OUT, dev, op, prevOp, log, src, inits, main, PORTF_IN, dirReq, procd, CLKCTRL>>

\* the device's diagnosis register changes (a failure appears or goes away);
\* the register is only looked at when a frame is processed, so the changes
\* are taken while a frame is on the bus
Device_Diag(d) ==
    /\ d # dev.dia
    /\ SPI0.TX # -1
    /\ dev' = [dev EXCEPT !.dia = d]
    /\ UNCHANGED <<TLE9201SG, firsttime, pc, frame, SPI0, PA7, PORTD_OUT, TCD0, op, prevOp, log, src, inits, main, PORTF_IN, dirReq, procd, CLKCTRL>>

----------------------------------------------------------------------------
(* TLE9201SG_Write and TLE9201SG_Read                                       *)

Mut_AfterCall_Same(name) == name

\* the statement of main that follows the call of `name`
AfterCall(name) ==
    CASE name = "ON" -> "START"
      [] name = "START" -> "pf6"
      [] name = "DIR" -> "pf5"
      [] name = "STOP" -> "OFF"
      [] name = "OFF" -> "pf5"

\* a public operation is called when the previous one has returned, after
\* TLE9201SG_Mode_init; by any caller (main.at = "any"), or by main when it
\* stands at the call
CallTo(name, next) ==
    /\ pc = "idle"
    /\ (op = "none") => (name = "Mode_init")
    /\ main.at \in {"any", name}
    /\ main' = IF main.at = "any" THEN main ELSE [main EXCEPT !.at = next]
    /\ op' = name
    /\ prevOp' = op

Call(name) == CallTo(name, AfterCall(name))

\* the statement of main that follows TLE9201SG_Mode_init(mode): the loop in
\* main.c (SPI mode), TLE9201SG_OFF() in the earlier main (PWM/DIR mode)
AfterInit(mode) == IF mode # 0 THEN "pf5" ELSE "OFF"

\* SPI0_Start(); SPI0.DATA = command + ...;
Write_send ==
    /\ pc = "W_send"
    /\ PA7' = 0
    /\ SPI0' = [SPI0 EXCEPT !.TX = WriteByte(frame.command, TLE9201SG), !.RXCIF = FALSE]
    /\ log' = Append(log, Event("xfer", WriteByte(frame.command, TLE9201SG)))
    /\ pc' = "W_wait"
    /\ dirReq' = -1
    /\ UNCHANGED <<TLE9201SG, firsttime, frame, PORTD_OUT, TCD0, dev, op, prevOp, src, inits, main, PORTF_IN, procd, CLKCTRL>>

\* while (!RXCIF); the response is stored and decoded; SPI0_Stop();
Write_store ==
    /\ pc = "W_wait"
    /\ SPI0.RXCIF
    /\ TLE9201SG' = Write_Store(frame.command, SPI0.DATA, TLE9201SG)
    /\ src' = IF frame.command = WR_CTRL
              THEN [src EXCEPT !.control = SPI0.cls]
              ELSE [src EXCEPT !.diag = SPI0.cls]
    /\ log' = Append(log, Event(IF frame.command = WR_CTRL THEN "ctl" ELSE "dia", SPI0.DATA))
    /\ PA7' = 1
    /\ pc' = frame.ret
    /\ UNCHANGED <<firsttime, frame, SPI0, PORTD_OUT, TCD0, dev, op, prevOp, inits, main, PORTF_IN, dirReq, procd, CLKCTRL>>

\* one round of the loop of TLE9201SG_Read(command, 0): SPI0_Start(); SPI0.DATA = command;
Read_send ==
    /\ pc = "R_send"
    /\ PA7' = 0
    /\ SPI0' = [SPI0 EXCEPT !.TX = frame.command, !.RXCIF = FALSE]
    /\ log' = Append(log, Event("xfer", frame.command))
    /\ pc' = "R_wait"
    /\ dirReq' = -1
    /\ UNCHANGED <<TLE9201SG, firsttime, frame, PORTD_OUT, TCD0, dev, op, prevOp, src, inits, main, PORTF_IN, procd, CLKCTRL>>

\* while (!RXCIF); SPI0_Stop(); i++ and the loop test; after the loop firsttime = 1
Read_next ==
    /\ pc = "R_wait"
    /\ SPI0.RXCIF
    /\ PA7' = 1
    /\ IF frame.i + 1 < ReadRounds(firsttime)
       THEN /\ frame' = [frame EXCEPT !.i = @ + 1]
            /\ pc' = "R_send"
            /\ UNCHANGED firsttime
       ELSE /\ firsttime' = 1
            /\ pc' = frame.ret
            /\ UNCHANGED frame
    /\ UNCHANGED <<TLE9201SG, SPI0, PORTD_OUT, TCD0, dev, op, prevOp, log, src, inits, main, PORTF_IN, dirReq, procd, CLKCTRL>>

----------------------------------------------------------------------------
(* Public operations of the driver                                          *)

\* void TLE9201SG_Mode_init(uint8_t mode)
TLE9201SG_Mode_init(mode) ==
    /\ CallTo("Mode_init", AfterInit(mode))
    /\ inits < MaxInits
    /\ inits' = inits + 1
    /\ log' = <<>>
    /\ IF mode # 0
       THEN /\ TLE9201SG' = Mode_init_SPI(mode, TLE9201SG)
            /\ frame' = [command |-> WR_CTRL, i |-> 0, ret |-> "MI_rev"]
            /\ pc' = "W_send"
       ELSE /\ TLE9201SG' = [TLE9201SG EXCEPT !.mode = mode]
            /\ frame' = NoFrame
            /\ pc' = "MI_tcd"
    /\ UNCHANGED <<firsttime, SPI0, PA7, PORTD_OUT, TCD0, dev, src, PORTF_IN, dirReq, procd, CLKCTRL>>

\* TLE9201SG_Revision(): the call of TLE9201SG_Read(RD_REV, 0)
MI_rev ==
    /\ pc = "MI_rev"
    /\ frame' = [command |-> RD_REV, i |-> 0, ret |-> "MI_ctl"]
    /\ pc' = "R_send"
    /\ UNCHANGED <<TLE9201SG, firsttime, SPI0, PA7, PORTD_OUT, TCD0, dev, op, prevOp, log, src, inits, main, PORTF_IN, dirReq, procd, CLKCTRL>>

\* TLE9201SG.revision = raw; then the call of TLE9201SG_Read(RD_CTRL, 0)
MI_ctl ==
    /\ pc = "MI_ctl"
    /\ TLE9201SG' = [TLE9201SG EXCEPT !.revision = SPI0.DATA]
    /\ frame' = [command |-> RD_CTRL, i |-> 0, ret |-> "MI_end"]
    /\ pc' = "R_send"
    /\ UNCHANGED <<firsttime, SPI0, PA7, PORTD_OUT, TCD0, dev, op, prevOp, log, src, inits, main, PORTF_IN, dirReq, procd, CLKCTRL>>

\* TLE9201SG.control = (value read); TLE9201SG_Sort_Control_(); SPI0_Stop();
MI_end ==
    /\ pc = "MI_end"
    /\ TLE9201SG' = TLE9201SG_Sort_Control_([TLE9201SG EXCEPT !.control = SPI0.DATA])
    /\ src' = [src EXCEPT !.control = SPI0.cls]
    /\ log' = Append(log, Event("ctl", SPI0.DATA))
    /\ PA7' = 1
    /\ pc' = "idle"
    /\ frame' = NoFrame
    /\ UNCHANGED <<firsttime, SPI0, PORTD_OUT, TCD0, dev, op, prevOp, inits, main, PORTF_IN, dirReq, procd, CLKCTRL>>

\* PWM/DIR branch: PLL_init(); TCD0_init() waits for ENRDY and writes CTRLA; PWM_init()
MI_tcd ==
    /\ pc = "MI_tcd"
    /\ TCD0.ENRDY
    /\ TCD0' = TCD0_init(TCD0)
    /\ log' = Append(log, Event("tcd", TCD0_init(TCD0).ENABLE))
    /\ pc' = "idle"
    /\ UNCHANGED <<TLE9201SG, firsttime, frame, SPI0, PA7, PORTD_OUT, dev, op, prevOp, src, inits, main, PORTF_IN, dirReq, procd, CLKCTRL>>

\* void TLE9201SG_ON()
TLE9201SG_ON ==
    /\ Call("ON")
    /\ log' = <<>>
    /\ IF TLE9201SG.mode # 0
       THEN TLE9201SG' = ON_SPI(TLE9201SG) /\ UNCHANGED PORTD_OUT
       ELSE PORTD_OUT' = ON_PWMDIR(PORTD_OUT) /\ UNCHANGED TLE9201SG
    /\ UNCHANGED <<firsttime, pc, frame, SPI0, PA7, TCD0, dev, src, inits, PORTF_IN, dirReq, procd, CLKCTRL>>

\* void TLE9201SG_OFF()
TLE9201SG_OFF ==
    /\ Call("OFF")
    /\ log' = <<>>
    /\ IF TLE9201SG.mode # 0
       THEN TLE9201SG' = OFF_SPI(TLE9201SG) /\ PA7' = 1 /\ UNCHANGED pc
       ELSE pc' = "OFF_tcd" /\ UNCHANGED <<TLE9201SG, PA7>>
    /\ UNCHANGED <<firsttime, frame, SPI0, PORTD_OUT, TCD0, dev, src, inits, PORTF_IN, dirReq, procd, CLKCTRL>>

\* PWM/DIR branch of TLE9201SG_OFF: TCD0_OFF() past its wait, then PORTD.OUTSET = PIN6_bm
OFF_tcd ==
    /\ pc = "OFF_tcd"
    /\ TCD0.ENRDY
    /\ TCD0' = TCD0_OFF(TCD0)
    /\ log' = Append(log, Event("tcd", TCD0_OFF(TCD0).ENABLE))
    /\ PORTD_OUT' = OFF_PWMDIR(PORTD_OUT)
    /\ pc' = "idle"
    /\ UNCHANGED <<TLE9201SG, firsttime, frame, SPI0, PA7, dev, op, prevOp, src, inits, main, PORTF_IN, dirReq, procd, CLKCTRL>>

\* void TLE9201SG_DIR(uint8_t direction)
TLE9201SG_DIR(direction) ==
    /\ Call("DIR")
    /\ log' = <<>>
    /\ IF TLE9201SG.mode # 0
       THEN /\ TLE9201SG' = DIR_SPI(direction, TLE9201SG)
            /\ dirReq' = direction
            /\ UNCHANGED PORTD_OUT
       ELSE /\ PORTD_OUT' = DIR_PWMDIR(direction)
            /\ UNCHANGED <<TLE9201SG, dirReq>>
    /\ UNCHANGED <<firsttime, pc, frame, SPI0, PA7, TCD0, dev, src, inits, PORTF_IN, procd, CLKCTRL>>

\* void TLE9201SG_START()
TLE9201SG_START ==
    /\ Call("START")
    /\ log' = <<>>
    /\ IF TLE9201SG.mode # 0
       THEN /\ TLE9201SG' = START_SPI_on(TLE9201SG)
            /\ frame' = [command |-> WR_CTRL_RD_DIA, i |-> 0, ret |-> "ST_on"]
            /\ pc' = "W_send"
       ELSE /\ pc' = "ST_tcd"
            /\ UNCHANGED <<TLE9201SG, frame>>
    /\ UNCHANGED <<firsttime, SPI0, PA7, PORTD_OUT, TCD0, dev, src, inits, PORTF_IN, dirReq, procd, CLKCTRL>>

\* _delay_loop_2(TLE9201SG.on); TLE9201SG.SPWM = 0; the call of the second write
ST_on ==
    /\ pc = "ST_on"
    /\ log' = Append(log, Event("hold", TLE9201SG.on))
    /\ TLE9201SG' = START_SPI_off(TLE9201SG)
    /\ frame' = [command |-> WR_CTRL_RD_DIA, i |-> 0, ret |-> "ST_off"]
    /\ pc' = "W_send"
    /\ UNCHANGED <<firsttime, SPI0, PA7, PORTD_OUT, TCD0, dev, op, prevOp, src, inits, main, PORTF_IN, dirReq, procd, CLKCTRL>>

\* _delay_loop_2(TLE9201SG.off); return
ST_off ==
    /\ pc = "ST_off"
    /\ log' = Append(log, Event("hold", TLE9201SG.off))
    /\ frame' = NoFrame
    /\ pc' = "idle"
    /\ UNCHANGED <<TLE9201SG, firsttime, SPI0, PA7, PORTD_OUT, TCD0, dev, op, prevOp, src, inits, main, PORTF_IN, dirReq, procd, CLKCTRL>>

\* PWM/DIR branch of TLE9201SG_START: TCD0_ON() past its wait
ST_tcd ==
    /\ pc = "ST_tcd"
    /\ TCD0.ENRDY
    /\ TCD0' = TCD0_ON(TCD0)
    /\ log' = Append(log, Event("tcd", TCD0_ON(TCD0).ENABLE))
    /\ pc' = "idle"
    /\ UNCHANGED <<TLE9201SG, firsttime, frame, SPI0, PA7, PORTD_OUT, dev, op, prevOp, src, inits, main, PORTF_IN, dirReq, procd, CLKCTRL>>

\* void TLE9201SG_STOP()
TLE9201SG_STOP ==
    /\ Call("STOP")
    /\ log' = <<>>
    /\ IF TLE9201SG.mode # 0
       THEN PA7' = 1 /\ UNCHANGED pc
       ELSE pc' = "STOP_tcd" /\ UNCHANGED PA7
    /\ UNCHANGED <<TLE9201SG, firsttime, frame, SPI0, PORTD_OUT, TCD0, dev, src, inits, PORTF_IN, dirReq, procd, CLKCTRL>>

\* PWM/DIR branch of TLE9201SG_STOP: TCD0_OFF() past its wait
STOP_tcd ==
    /\ pc = "STOP_tcd"
    /\ TCD0.ENRDY
    /\ TCD0' = TCD0_OFF(TCD0)
    /\ log' = Append(log, Event("tcd", TCD0_OFF(TCD0).ENABLE))
    /\ pc' = "idle"
    /\ UNCHANGED <<TLE9201SG, firsttime, frame, SPI0, PA7, PORTD_OUT, dev, op, prevOp, src, inits, main, PORTF_IN, dirReq, procd, CLKCTRL>>

----------------------------------------------------------------------------
(* Any sequence of public operations, each run to its return                *)

\* every step but a call of TLE9201SG_DIR
Driver ==
    \/ \E mode \in {TLE9201SG_MODE_PWMDIR, TLE9201SG_MODE_SPI} : TLE9201SG_Mode_init(mode)
    \/ MI_rev
    \/ MI_ctl
    \/ MI_end
    \/ MI_tcd
    \/ TLE9201SG_ON
    \/ TLE9201SG_OFF
    \/ OFF_tcd
    \/ TLE9201SG_START
    \/ ST_on
    \/ ST_off
    \/ ST_tcd
    \/ TLE9201SG_STOP
    \/ STOP_tcd
    \/ Write_send
    \/ Write_store
    \/ Read_send
    \/ Read_next
    \/ SPI_Complete
    \/ TCD_Ready
    \/ \E d \in DiagValues : Device_Diag(d)

\* the caller keeps to the documented arguments of TLE9201SG_DIR, 0 and 1
Next ==
    \/ Driver
    \/ \E direction \in {0, 1} : TLE9201SG_DIR(direction)

Spec == Init /\ [][Next]_vars

\* duty cycles main may set before TLE9201SG_Mode_init (float duty_cycle, in percent)
DutyValues == {0, 50, 100, 150}

\* as Init, with any of the duty cycles
InitAnyDuty ==
    /\ TLE9201SG \in {[MainConfig(ResetData) EXCEPT !.duty_cycle = d] : d \in DutyValues}
    /\ main = [at |-> "any", pf5 |-> 1, pf6 |-> 1]
    /\ PORTF_IN = [PF5 |-> 1, PF6 |-> 1]
    /\ InitRest

SpecAnyDuty == InitAnyDuty /\ [][Next]_vars

\* the caller passes any uint8_t to TLE9201SG_DIR
NextAnyDir ==
    \/ Driver
    \/ \E direction \in DirValues : TLE9201SG_DIR(direction)

SpecAnyDir == Init /\ [][NextAnyDir]_vars

----------------------------------------------------------------------------
(* The register codec on its own: one received byte is decoded as a         *)
(* diagnosis byte, or decoded as a control byte and assembled again the way *)
(* the write path assembles it                                              *)

Bytes == 0 .. 255

CodecInit ==
    /\ TLE9201SG = ResetData
    /\ firsttime = 0
    /\ pc = "codec_in"
    /\ frame = NoFrame
    /\ SPI0 \in {[DATA |-> b, RXCIF |-> TRUE, TX |-> -1, cls |-> "reset"] : b \in Bytes}
    /\ PA7 = 0
    /\ PORTD_OUT = 0
    /\ TCD0 = [ENABLE |-> 0, ENRDY |-> TRUE]
    /\ dev \in {d \in DevInit : d.cls = "dia" /\ d.ctrl = 0 /\ d.dia = 255}
    /\ op = "none"
    /\ prevOp = "none"
    /\ log = <<>>
    /\ src = [control |-> "reset", diag |-> "reset"]
    /\ inits = 0
    /\ main = [at |-> "any", pf5 |-> 1, pf6 |-> 1]
    /\ PORTF_IN = [PF5 |-> 1, PF6 |-> 1]
    /\ dirReq = -1
    /\ procd = <<NoProc, NoProc>>
    /\ CLKCTRL = F_OSCHF

\* TLE9201SG.diag = SPI0.DATA; TLE9201SG_Sort_Diagnosis();
Codec_Diagnosis ==
    /\ pc = "codec_in"
    /\ TLE9201SG' = TLE9201SG_Sort_Diagnosis([TLE9201SG EXCEPT !.diag = SPI0.DATA])
    /\ pc' = "codec_dia"
    /\ UNCHANGED <<firsttime, frame, SPI0, PA7, PORTD_OUT, TCD0, dev, op, prevOp, log, src, inits, main, PORTF_IN, dirReq, procd, CLKCTRL>>

\* TLE9201SG.control = SPI0.DATA; TLE9201SG_Sort_Control_();
Codec_Control ==
    /\ pc = "codec_in"
    /\ TLE9201SG' = TLE9201SG_Sort_Control_([TLE9201SG EXCEPT !.control = SPI0.DATA])
    /\ pc' = "codec_ctl"
    /\ UNCHANGED <<firsttime, frame, SPI0, PA7, PORTD_OUT, TCD0, dev, op, prevOp, log, src, inits, main, PORTF_IN, dirReq, procd, CLKCTRL>>

\* SPI0.DATA = command + (OLDIS << 4) + ... with the command bits of the decoded byte
Codec_Encode ==
    /\ pc = "codec_ctl"
    /\ SPI0' = [SPI0 EXCEPT !.TX = WriteByte(CommandOf(TLE9201SG.control), TLE9201SG)]
    /\ pc' = "codec_out"
    /\ UNCHANGED <<TLE9201SG, firsttime, frame, PA7, PORTD_OUT, TCD0, dev, op, prevOp, log, src, inits, main, PORTF_IN, dirReq, procd, CLKCTRL>>

CodecNext ==
    \/ Codec_Diagnosis
    \/ Codec_Control
    \/ Codec_Encode

CodecSpec == CodecInit /\ [][CodecNext]_vars

----------------------------------------------------------------------------
(* The two back ends side by side: the same calls are made on a driver     *)
(* initialised in SPI mode (TLE9201SG, SPI0, PA7, dev) and on a driver     *)
(* initialised in PWM/DIR mode (PORTD_OUT, TCD0), each call run to its     *)
(* return                                                                   *)

\* one transfer: the device takes in `byte` and SPI0.DATA receives the
\* response it had latched
Exchange(x, byte) ==
    [s |-> x.s, d |-> DeviceProcess(x.d, byte), data |-> x.d.resp, cls |-> x.d.cls]

\* TLE9201SG_Write(command) from call to return
WriteDone(command, x) ==
    LET y == Exchange(x, WriteByte(command, x.s))
    IN  [y EXCEPT !.s = Write_Store(command, y.data, x.s)]

\* TLE9201SG_Read(command, 0) from call to return, n rounds of its loop
RECURSIVE ReadDone(_, _, _)
ReadDone(command, n, x) ==
    IF n = 0 THEN x ELSE ReadDone(command, n - 1, Exchange(x, command))

\* TLE9201SG_Mode_init(TLE9201SG_MODE_SPI) from call to return
Mode_init_SPI_Done(x, first) ==
    LET w == WriteDone(WR_CTRL, [x EXCEPT !.s = Mode_init_SPI(TLE9201SG_MODE_SPI, x.s)])
        r == ReadDone(RD_REV, ReadRounds(first), w)
        c == ReadDone(RD_CTRL, ReadRounds(1), [r EXCEPT !.s.revision = r.data])
    IN  [c EXCEPT !.s = TLE9201SG_Sort_Control_([c.s EXCEPT !.control = c.data])]

\* TLE9201SG_START() in SPI mode from call to return
START_SPI_Done(x) ==
    LET w == WriteDone(WR_CTRL_RD_DIA, [x EXCEPT !.s = START_SPI_on(x.s)])
    IN  WriteDone(WR_CTRL_RD_DIA, [w EXCEPT !.s = START_SPI_off(w.s)])

TwinInit ==
    /\ TLE9201SG = MainConfig(ResetData)
    /\ main = [at |-> "any", pf5 |-> 1, pf6 |-> 1]
    /\ PORTF_IN = [PF5 |-> 1, PF6 |-> 1]
    /\ firsttime = 0
    /\ pc = "twin"
    /\ frame = NoFrame
    /\ SPI0 = [DATA |-> 0, RXCIF |-> FALSE, TX |-> -1, cls |-> "reset"]
    /\ PA7 = 0
    /\ PORTD_OUT = 0
    /\ TCD0 \in {[ENABLE |-> 0, ENRDY |-> r] : r \in BOOLEAN}
    /\ dev \in DevInit
    /\ op = "none"
    /\ prevOp = "none"
    /\ log = <<>>
    /\ src = [control |-> "reset", diag |-> "reset"]
    /\ inits = 0
    /\ dirReq = -1
    /\ procd = <<NoProc, NoProc>>
    /\ CLKCTRL = F_OSCHF

\* what a call leaves alone on either side
TwinFrame(name) ==
    /\ pc = "twin"
    /\ op' = name
    /\ prevOp' = op
    /\ PA7' = 1
    /\ UNCHANGED <<pc, frame, log, src, inits, main, PORTF_IN, dirReq, procd, CLKCTRL>>

\* main: TLE9201SG_Mode_init(mode); TLE9201SG_OFF();
Twin_init ==
    /\ op = "none"
    /\ TCD0.ENRDY
    /\ TwinFrame("init")
    /\ LET x == Mode_init_SPI_Done([s |-> TLE9201SG, d |-> dev, data |-> SPI0.DATA], firsttime)
       IN  /\ TLE9201SG' = OFF_SPI(x.s)
           /\ dev' = x.d
           /\ SPI0' = [SPI0 EXCEPT !.DATA = x.data, !.RXCIF = TRUE, !.cls = x.cls]
    /\ firsttime' = 1
    /\ TCD0' = TCD0_OFF(TCD0_init(TCD0))
    /\ PORTD_OUT' = OFF_PWMDIR(PORTD_OUT)

\* main: TLE9201SG_ON(); TLE9201SG_START();
Twin_start ==
    /\ op # "none"
    /\ TCD0.ENRDY
    /\ TwinFrame("start")
    /\ LET x == START_SPI_Done([s |-> ON_SPI(TLE9201SG), d |-> dev, data |-> SPI0.DATA])
       IN  /\ TLE9201SG' = x.s
           /\ dev' = x.d
           /\ SPI0' = [SPI0 EXCEPT !.DATA = x.data, !.RXCIF = TRUE, !.cls = x.cls]
    /\ TCD0' = TCD0_ON(TCD0)
    /\ PORTD_OUT' = ON_PWMDIR(PORTD_OUT)
    /\ UNCHANGED firsttime

\* main: TLE9201SG_STOP(); TLE9201SG_OFF();
Twin_stop ==
    /\ op # "none"
    /\ TCD0.ENRDY
    /\ TwinFrame("stop")
    /\ TLE9201SG' = OFF_SPI(TLE9201SG)
    /\ TCD0' = TCD0_OFF(TCD0_OFF(TCD0))
    /\ PORTD_OUT' = OFF_PWMDIR(PORTD_OUT)
    /\ UNCHANGED <<firsttime, SPI0, dev>>

\* main: TLE9201SG_DIR(direction);
Twin_dir(direction) ==
    /\ op # "none"
    /\ TwinFrame("dir")
    /\ TLE9201SG' = DIR_SPI(direction, TLE9201SG)
    /\ PORTD_OUT' = DIR_PWMDIR(direction)
    /\ UNCHANGED <<firsttime, SPI0, TCD0, dev>>

\* the device's diagnosis register changes between two calls
Twin_Diag(d) ==
    /\ pc = "twin"
    /\ d # dev.dia
    /\ dev' = [dev EXCEPT !.dia = d]
    /\ UNCHANGED <<TLE9201SG, firsttime, pc, frame, SPI0, PA7, PORTD_OUT, TCD0, op, prevOp, log, src, inits, main, PORTF_IN, dirReq, procd, CLKCTRL>>

TwinNext ==
    \/ Twin_init
    \/ Twin_start
    \/ Twin_stop
    \/ \E direction \in {0, 1} : Twin_dir(direction)
    \/ \E d \in DiagValues : Twin_Diag(d)
    \/ TCD_Ready

TwinSpec == TwinInit /\ [][TwinNext]_vars

----------------------------------------------------------------------------
(* The hold times of the SPI mode: the arithmetic of TLE9201SG_Mode_init   *)
(* in the earlier TLE9201SG.c, in exact fractions                           *)

\* #define TLE9201SG_SPI_TIME_COMPENSATION 0.000014, in microseconds
TLE9201SG_SPI_TIME_COMPENSATION == 14

\* rounds of _delay_loop_2 per microsecond: 1 / sig_calc, sig_calc = 1.0 / CLOCK_read() * 4
LoopsPerMicro(clock) == clock \div 4000000

\* share/100 * sig_period / sig_calc is TickNum / TickDen, with
\* sig_period = 1.0 / pwm_freq - TLE9201SG_SPI_TIME_COMPENSATION
TickNum(clock, freq, share) ==
    share * (1000000 - TLE9201SG_SPI_TIME_COMPENSATION * freq) * LoopsPerMicro(clock)

TickDen(freq) == 100 * freq

\* the values a uint16_t member can take when the floating value num/den is
\* assigned to it.  In range the fraction is cut off; a quotient that is a
\* whole number q may come out of the floating-point operations just below
\* q and be cut to q - 1 (it does with 32-bit double: 107 for 108).  Out of
\* range (negative, 65536 or more, or 1.0/0 and what follows from it) the
\* conversion is undefined: 0, 0xFFFF or the low 16 bits.
ToU16(num, den) ==
    IF den = 0 \/ num < 0
    THEN {0, 65535}
    ELSE IF num \div den >= 65536
    THEN {0, 65535, (num \div den) % 65536}
    ELSE IF num % den = 0 /\ num > 0
    THEN {num \div den - 1, num \div den}
    ELSE {num \div den}

\* TLE9201SG.on = (sig_on/sig_calc) with sig_on = duty_cycle/100 * sig_period
OnTicks(clock, s) == ToU16(TickNum(clock, s.pwm_freq, s.duty_cycle), TickDen(s.pwm_freq))

\* TLE9201SG.off = ((sig_period - sig_on)/ sig_calc)
OffTicks(clock, s) == ToU16(TickNum(clock, s.pwm_freq, 100 - s.duty_cycle), TickDen(s.pwm_freq))

\* values of CLOCK_read
ClockValues == {24000000, 16000000, 4000000}

\* values of uint16_t pwm_freq
FreqValues == {0, 50, 100, 10000, 20000, 65535}

\* values of duty_cycle, in percent
TimingDuty == {1, 10, 50, 90}

TimingInit ==
    /\ TLE9201SG \in {[ResetData EXCEPT !.pwm_freq = f, !.duty_cycle = d] :
                          f \in FreqValues, d \in TimingDuty}
    /\ CLKCTRL \in ClockValues
    /\ main = [at |-> "any", pf5 |-> 1, pf6 |-> 1]
    /\ PORTF_IN = [PF5 |-> 1, PF6 |-> 1]
    /\ firsttime = 0
    /\ pc = "t_in"
    /\ frame = NoFrame
    /\ SPI0 = [DATA |-> 0, RXCIF |-> FALSE, TX |-> -1, cls |-> "reset"]
    /\ PA7 = 0
    /\ PORTD_OUT = 0
    /\ TCD0 = [ENABLE |-> 0, ENRDY |-> TRUE]
    /\ dev \in {d \in DevInit : d.cls = "dia" /\ d.ctrl = 0 /\ d.dia = 255}
    /\ op = "none"
    /\ prevOp = "none"
    /\ log = <<>>
    /\ src = [control |-> "reset", diag |-> "reset"]
    /\ inits = 0
    /\ dirReq = -1
    /\ procd = <<NoProc, NoProc>>

\* TLE9201SG_Mode_init(TLE9201SG_MODE_SPI) of the earlier TLE9201SG.c, from
\* call to return: SPI0_init, the WR_CTRL frame, then sig_calc .. TLE9201SG.on
Legacy_Mode_init ==
    /\ pc = "t_in"
    /\ LET s == Mode_init_SPI(TLE9201SG_MODE_SPI, TLE9201SG)
           x == WriteDone(WR_CTRL, [s |-> s, d |-> dev, data |-> SPI0.DATA])
       IN  /\ \E on \in OnTicks(CLKCTRL, s), off \in OffTicks(CLKCTRL, s) :
                 /\ TLE9201SG' = [x.s EXCEPT !.off = off, !.on = on]
                 /\ log' = <<Event("xfer", WriteByte(WR_CTRL, s)), Event("ctl", x.data),
                             Event("ticks", off), Event("ticks", on)>>
           /\ dev' = x.d
           /\ SPI0' = [DATA |-> x.data, RXCIF |-> TRUE, TX |-> -1, cls |-> x.cls]
           /\ src' = [src EXCEPT !.control = x.cls]
           /\ procd' = <<procd[2], [cmd |-> WR_CTRL, dia |-> dev.dia]>>
    /\ PA7' = 1
    /\ pc' = "t_done"
    /\ op' = "Mode_init"
    /\ UNCHANGED <<firsttime, frame, PORTD_OUT, TCD0, prevOp, inits, main, PORTF_IN, dirReq, CLKCTRL>>

TimingNext == Legacy_Mode_init

TimingSpec == TimingInit /\ [][TimingNext]_vars

----------------------------------------------------------------------------
(* The control loop of main: the driver is called as main.c calls it, with  *)
(* the request lines PF5 (start/stop, low = start) and PF6 (direction)      *)
(* changing at any time                                                     *)

\* levels of the pins PF5 and PF6 in PORTF.IN
PinLevels == {[PF5 |-> a, PF6 |-> b] : a \in {0, 1}, b \in {0, 1}}

Mut_PF5_Branch_Inverted(level) == IF level = 0 THEN "STOP" ELSE "ON"

\* if (!(PORTF.IN & PIN5_bm)) { TLE9201SG_ON(); .. } else { TLE9201SG_STOP(); .. }
PF5_Branch(level) == IF level = 0 THEN "ON" ELSE "STOP"

LoopInit ==
    /\ TLE9201SG = MainConfig(ResetData)
    /\ main = [at |-> "Mode_init", pf5 |-> 1, pf6 |-> 1]
    /\ PORTF_IN \in PinLevels
    /\ InitRest

\* main reads PORTF.IN for the test of PF5, when the previous call has returned
Loop_PF5 ==
    /\ main.at = "pf5"
    /\ pc = "idle"
    /\ main' = [main EXCEPT !.pf5 = PORTF_IN.PF5, !.at = PF5_Branch(PORTF_IN.PF5)]
    /\ UNCHANGED <<TLE9201SG, firsttime, pc, frame, SPI0, PA7, PORTD_OUT, TCD0, dev, op, prevOp, log, src, inits, PORTF_IN, dirReq, procd, CLKCTRL>>

\* main reads PORTF.IN for the test of PF6, when TLE9201SG_START has returned;
\* it goes on to TLE9201SG_DIR(1) if PF6 is low, to TLE9201SG_DIR(0) otherwise
Loop_PF6 ==
    /\ main.at = "pf6"
    /\ pc = "idle"
    /\ main' = [main EXCEPT !.pf6 = PORTF_IN.PF6, !.at = "DIR"]
    /\ UNCHANGED <<TLE9201SG, firsttime, pc, frame, SPI0, PA7, PORTD_OUT, TCD0, dev, op, prevOp, log, src, inits, PORTF_IN, dirReq, procd, CLKCTRL>>

\* the request lines change
PORTF_Change(levels) ==
    /\ levels # PORTF_IN
    /\ PORTF_IN' = levels
    /\ UNCHANGED <<TLE9201SG, firsttime, pc, frame, SPI0, PA7, PORTD_OUT, TCD0, dev, op, prevOp, log, src, inits, main, dirReq, procd, CLKCTRL>>

LoopNext ==
    \/ TLE9201SG_Mode_init(TLE9201SG_MODE_SPI)
    \/ MI_rev
    \/ MI_ctl
    \/ MI_end
    \/ Loop_PF5
    \/ TLE9201SG_ON
    \/ TLE9201SG_START
    \/ ST_on
    \/ ST_off
    \/ Loop_PF6
    \/ TLE9201SG_DIR(1 - main.pf6)
    \/ TLE9201SG_STOP
    \/ TLE9201SG_OFF
    \/ Write_send
    \/ Write_store
    \/ Read_send
    \/ Read_next
    \/ SPI_Complete
    \/ \E d \in DiagValues : Device_Diag(d)
    \/ \E levels \in PinLevels : PORTF_Change(levels)

LoopSpec == LoopInit /\ [][LoopNext]_vars

----------------------------------------------------------------------------
(* The control loop of the earlier main: TLE9201SG_Mode_init in PWM/DIR     *)
(* mode, TLE9201SG_OFF, then the same loop                                  *)

\* main: TLE9201SG.pwm_freq = 10000; TLE9201SG.duty_cycle = 10.0;
LegacyConfig(s) == [s EXCEPT !.pwm_freq = 10000, !.duty_cycle = 10]

PwmLoopInit ==
    /\ TLE9201SG = LegacyConfig(ResetData)
    /\ main = [at |-> "Mode_init", pf5 |-> 1, pf6 |-> 1]
    /\ PORTF_IN \in PinLevels
    /\ InitRest

PwmLoopNext ==
    \/ TLE9201SG_Mode_init(TLE9201SG_MODE_PWMDIR)
    \/ MI_tcd
    \/ Loop_PF5
    \/ TLE9201SG_ON
    \/ TLE9201SG_START
    \/ ST_tcd
    \/ Loop_PF6
    \/ TLE9201SG_DIR(1 - main.pf6)
    \/ TLE9201SG_STOP
    \/ STOP_tcd
    \/ TLE9201SG_OFF
    \/ OFF_tcd
    \/ TCD_Ready
    \/ \E levels \in PinLevels : PORTF_Change(levels)

PwmLoopSpec == PwmLoopInit /\ [][PwmLoopNext]_vars

----------------------------------------------------------------------------
(* The control loop with scheduling: the processor always executes its next *)
(* statement, every transfer that was started completes and the timer       *)
(* finishes every synchronisation; main initialises either mode             *)

\* the statements of main and of the driver, waits included
CpuStep ==
    \/ \E mode \in {TLE9201SG_MODE_PWMDIR, TLE9201SG_MODE_SPI} : TLE9201SG_Mode_init(mode)
    \/ MI_rev
    \/ MI_ctl
    \/ MI_end
    \/ MI_tcd
    \/ Loop_PF5
    \/ TLE9201SG_ON
    \/ TLE9201SG_START
    \/ ST_on
    \/ ST_off
    \/ ST_tcd
    \/ Loop_PF6
    \/ TLE9201SG_DIR(1 - main.pf6)
    \/ TLE9201SG_STOP
    \/ STOP_tcd
    \/ TLE9201SG_OFF
    \/ OFF_tcd
    \/ Write_send
    \/ Write_store
    \/ Read_send
    \/ Read_next

MainNext ==
    \/ CpuStep
    \/ SPI_Complete
    \/ TCD_Ready
    \/ \E d \in DiagValues : Device_Diag(d)
    \/ \E levels \in PinLevels : PORTF_Change(levels)

FairMainSpec ==
    /\ LoopInit
    /\ [][MainNext]_vars
    /\ WF_vars(CpuStep)
    /\ WF_vars(SPI_Complete)
    /\ WF_vars(TCD_Ready)

----------------------------------------------------------------------------
(* TLE9201SG_Write on its own: one call with any of the command codes of    *)
(* TLE9201SG.h, from call to return                                         *)

\* RD_DIA .. WR_CTRL_RD_DIA of TLE9201SG.h
Commands == {RD_DIA, RES_DIA, RD_REV, RD_CTRL, WR_CTRL, WR_CTRL_RD_DIA}

\* the struct in SPI mode before the call: as initialised, or with both
\* caches filled by earlier responses
WriteStructs ==
    {[ResetData EXCEPT !.mode = TLE9201SG_MODE_SPI],
     TLE9201SG_Sort_Diagnosis(TLE9201SG_Sort_Control_(
        [ResetData EXCEPT !.mode = TLE9201SG_MODE_SPI, !.control = 13, !.diag = 117]))}

WriteInit ==
    /\ TLE9201SG \in WriteStructs
    /\ main = [at |-> "any", pf5 |-> 1, pf6 |-> 1]
    /\ PORTF_IN = [PF5 |-> 1, PF6 |-> 1]
    /\ firsttime = 0
    /\ pc = "w_in"
    /\ frame = NoFrame
    /\ SPI0 = [DATA |-> 0, RXCIF |-> FALSE, TX |-> -1, cls |-> "reset"]
    /\ PA7 = 1
    /\ PORTD_OUT = 0
    /\ TCD0 = [ENABLE |-> 0, ENRDY |-> TRUE]
    /\ dev \in DevInit
    /\ op = "none"
    /\ prevOp = "none"
    /\ log = <<>>
    /\ src = [control |-> "reset", diag |-> "reset"]
    /\ inits = 0
    /\ dirReq = -1
    /\ procd = <<NoProc, NoProc>>
    /\ CLKCTRL = F_OSCHF

\* void TLE9201SG_Write(uint8_t command), from call to return
Write_Call(command) ==
    /\ pc = "w_in"
    /\ LET x == WriteDone(command, [s |-> TLE9201SG, d |-> dev, data |-> SPI0.DATA])
       IN  /\ TLE9201SG' = x.s
           /\ dev' = x.d
           /\ SPI0' = [DATA |-> x.data, RXCIF |-> TRUE, TX |-> -1, cls |-> x.cls]
           /\ src' = IF command = WR_CTRL
                     THEN [src EXCEPT !.control = x.cls]
                     ELSE [src EXCEPT !.diag = x.cls]
           /\ log' = <<Event("xfer", WriteByte(command, TLE9201SG)),
                       Event(IF command = WR_CTRL THEN "ctl" ELSE "dia", x.data)>>
    /\ procd' = <<procd[2], [cmd |-> command, dia |-> dev.dia]>>
    /\ frame' = [command |-> command, i |-> 0, ret |-> "w_done"]
    /\ pc' = "w_done"
    /\ op' = "Write"
    /\ UNCHANGED <<firsttime, PA7, PORTD_OUT, TCD0, prevOp, inits, main, PORTF_IN, dirReq, CLKCTRL>>

WriteNext == \E command \in Commands : Write_Call(command)

WriteSpec == WriteInit /\ [][WriteNext]_vars

----------------------------------------------------------------------------
(* TLE9201SG_Read on its own: calls of TLE9201SG_Read(command, 0) with any  *)
(* of the command codes, one after the other, on the step-level transfers   *)

ReadInit ==
    /\ TLE9201SG = [MainConfig(ResetData) EXCEPT !.mode = TLE9201SG_MODE_SPI]
    /\ main = [at |-> "any", pf5 |-> 1, pf6 |-> 1]
    /\ PORTF_IN = [PF5 |-> 1, PF6 |-> 1]
    /\ InitRest

\* uint8_t TLE9201SG_Read(uint8_t command, uint8_t write) with write = 0: the call
Read_Call(command) ==
    /\ pc = "idle"
    /\ op' = "Read"
    /\ prevOp' = op
    /\ log' = <<>>
    /\ frame' = [command |-> command, i |-> 0, ret |-> "idle"]
    /\ pc' = "R_send"
    /\ UNCHANGED <<TLE9201SG, firsttime, SPI0, PA7, PORTD_OUT, TCD0, dev, src, inits, main, PORTF_IN, dirReq, procd, CLKCTRL>>

ReadNext ==
    \/ \E command \in Commands : Read_Call(command)
    \/ Read_send
    \/ Read_next
    \/ SPI_Complete
    \/ \E d \in DiagValues : Device_Diag(d)

ReadSpec == ReadInit /\ [][ReadNext]_vars

----------------------------------------------------------------------------
(* Properties                                                               *)

\* the public operation `name` has returned and nothing was called since
Returned(name) == pc = "idle" /\ op = name

SerialMode == TLE9201SG.mode # 0

PD6 == Bit(PORTD_OUT, 6)

IsBusEvent(ev) == ev.e \in {"xfer", "hold"}

\* the transfers and holds of the running (or last) operation, in order
Bus == SelectSeq(log, IsBusEvent)

Count(kind) == Cardinality({k \in 1 .. Len(log) : log[k].e = kind})

\* the step in which TLE9201SG_Write decodes a response as a diagnosis byte
DiagDecodeStep == pc = "W_wait" /\ pc' # "W_wait" /\ frame.command # WR_CTRL

\* C1: with a device that answers each transfer with the result of the
\* previous command, .diag only ever holds a diagnosis-register response and
\* .control only ever holds a control-register response.
C1_CachesHoldTheirOwnClass ==
    /\ src.control \in {"reset", "ctrl"}
    /\ src.diag \in {"reset", "dia"}

\* C2 as stated: the fault code changes only when a diagnosis decode with a
\* code other than 0xF overwrites it; a decode with code 0xF never clears it.
C2_FaultOnlyOverwrittenByFault ==
    [][TLE9201SG'.Fault # TLE9201SG.Fault
          => /\ DiagDecodeStep
             /\ SPI0.DATA % 16 # 15
             /\ TLE9201SG'.Fault = SPI0.DATA % 16]_vars

\* C2 amended: every diagnosis decode sets the fault code anew, to the
\* diagnosis code when that is not 0xF and to 0 when it is 0xF; no other step
\* changes the fault code.
C2_FaultSetAnewByEveryDecode ==
    [][IF DiagDecodeStep
       THEN TLE9201SG'.Fault = (IF SPI0.DATA % 16 # 15 THEN SPI0.DATA % 16 ELSE 0)
       ELSE TLE9201SG'.Fault = TLE9201SG.Fault]_vars

\* a START whose first decode latched code 5 and whose second decode saw 0xF
C2_Witness ==
    /\ pc = "ST_off"
    /\ Count("dia") = 2
    /\ \E j, k \in 1 .. Len(log) :
          /\ j < k
          /\ log[j] = Event("dia", 245)
          /\ log[k] = Event("dia", 255)
    /\ TLE9201SG.Fault = 0

\* C3: decoding a diagnosis byte in the freshly initialised struct leaves
\* "no fault" (Fault = 0, the reset value) exactly when the nibble is 0xF,
\* and otherwise a fault code equal to the nibble.
C3_NoFaultIffNibbleF ==
    pc = "codec_dia"
        => /\ (TLE9201SG.Fault = ResetData.Fault) <=> (SPI0.DATA % 16 = 15)
           /\ (SPI0.DATA % 16 # 15) => (TLE9201SG.Fault = SPI0.DATA % 16)

\* C4: a byte decoded by TLE9201SG_Sort_Control_ and assembled again from
\* its command bits and the decoded fields is the same byte.
C4_ControlRoundTrip ==
    pc = "codec_out" => SPI0.TX = SPI0.DATA

C4_Witness ==
    /\ pc = "codec_out"
    /\ SPI0.DATA = 182
    /\ TLE9201SG.CMD = 5 /\ TLE9201SG.OLDIS = 1 /\ TLE9201SG.SIN = 0
    /\ TLE9201SG.SEN = 1 /\ TLE9201SG.SDIR = 1 /\ TLE9201SG.SPWM = 0

\* C5: every byte TLE9201SG_Write sends is the command with each cached
\* field in its own bit: bits 7-5 are the command's, bit 4 OLDIS, bit 3 SIN,
\* bit 2 SEN, bit 1 SDIR, bit 0 SPWM.
C5_WriteByteLayout ==
    pc = "W_wait"
        => LET b == log[Len(log)].v IN
           /\ CommandOf(b) = frame.command
           /\ Bit(b, 4) = TLE9201SG.OLDIS
           /\ Bit(b, 3) = TLE9201SG.SIN
           /\ Bit(b, 2) = TLE9201SG.SEN
           /\ Bit(b, 1) = TLE9201SG.SDIR
           /\ Bit(b, 0) = TLE9201SG.SPWM

\* C6: during the first TLE9201SG_Mode_init(SPI) no response is stored into
\* .control before three transfers were made, and by its return the
\* control-write command has been sent at least three times.
C6_EntryDiscardsTwoResponses ==
    (op = "Mode_init" /\ SerialMode /\ inits = 1)
        => /\ \A k \in 1 .. Len(log) :
                 log[k].e = "ctl"
                     => Cardinality({j \in 1 .. k : log[j].e = "xfer"}) >= 3
           /\ pc = "idle"
                 => Cardinality({j \in 1 .. Len(log) :
                        log[j].e = "xfer" /\ CommandOf(log[j].v) = WR_CTRL}) >= 3


\* the shape of one on/off cycle: transfer, hold of .on, transfer, hold of .off
OnOffCycle ==
    /\ Len(Bus) = 4
    /\ Bus[1].e = "xfer"
    /\ Bus[2] = Event("hold", TLE9201SG.on)
    /\ Bus[3].e = "xfer"
    /\ Bus[4] = Event("hold", TLE9201SG.off)
    /\ Count("xfer") = 2

\* C7 as stated: TLE9201SG_START in serial mode sends a byte with
\* output_enable = 1 and pwm_bit = 1, holds on_ticks, sends a byte with
\* pwm_bit = 0, holds off_ticks; two transfers, and SPWM is 0 on return.
C7_StartSetsEnableAndPwm ==
    (Returned("START") /\ SerialMode)
        => /\ OnOffCycle
           /\ Bit(Bus[1].v, 2) = 1
           /\ Bit(Bus[1].v, 0) = 1
           /\ Bit(Bus[3].v, 0) = 0
           /\ TLE9201SG.SPWM = 0

\* C7 amended: the first byte has pwm_bit = 1 and is built from the cached
\* fields as TLE9201SG_START finds them (it does not set output_enable), the
\* second is the same byte with pwm_bit = 0; the order transfer, hold of .on,
\* transfer, hold of .off, the two transfers and SPWM = 0 on return stand.
C7_StartTogglesPwmOnly ==
    (Returned("START") /\ SerialMode)
        => /\ OnOffCycle
           /\ Bit(Bus[1].v, 0) = 1
           /\ Bit(Bus[3].v, 0) = 0
           /\ Bus[1].v = U8(Bus[3].v + 1)
           /\ Bus[3].v = U8(WR_CTRL_RD_DIA + TLE9201SG.OLDIS * 16 + TLE9201SG.SIN * 8
                              + TLE9201SG.SEN * 4 + TLE9201SG.SDIR * 2)
           /\ TLE9201SG.SPWM = 0

\* a START that returned in serial mode and sent output_enable = 0
C7_Witness ==
    /\ Returned("START")
    /\ SerialMode
    /\ TLE9201SG.SEN = 0
    /\ Len(Bus) = 4
    /\ Bit(Bus[1].v, 2) = 0

\* C8 as stated: after TLE9201SG_STOP returns in serial mode SEN is 0.
C8_StopClearsEnable ==
    (Returned("STOP") /\ SerialMode) => TLE9201SG.SEN = 0

\* C8 amended: after TLE9201SG_STOP followed by TLE9201SG_OFF returns in
\* serial mode SEN is 0.
C8_StopThenOffClearsEnable ==
    (Returned("OFF") /\ prevOp = "STOP" /\ SerialMode) => TLE9201SG.SEN = 0

\* STOP then OFF returned in serial mode after a START had sent its bytes
C8_Witness ==
    /\ Returned("OFF")
    /\ prevOp = "STOP"
    /\ SerialMode
    /\ dev.ctrl = 12

\* C9 as stated: in PWM/DIR mode TLE9201SG_START directly followed by
\* TLE9201SG_STOP leaves PD6 high and TCD0 disabled.
C9_StartStopDisables ==
    (Returned("STOP") /\ prevOp = "START" /\ ~SerialMode)
        => PD6 = 1 /\ TCD0.ENABLE = 0

\* C9 amended: in PWM/DIR mode TLE9201SG_START directly followed by
\* TLE9201SG_STOP leaves TCD0 disabled; PD6 is high, with TCD0 disabled, once
\* the TLE9201SG_OFF that follows TLE9201SG_STOP has returned.
C9_StartStopOffDisables ==
    /\ (Returned("STOP") /\ prevOp = "START" /\ ~SerialMode) => TCD0.ENABLE = 0
    /\ (Returned("OFF") /\ prevOp = "STOP" /\ ~SerialMode)
           => PD6 = 1 /\ TCD0.ENABLE = 0

\* START then STOP returned in PWM/DIR mode with the output-disable line low
C9_Witness ==
    /\ Returned("STOP")
    /\ prevOp = "START"
    /\ ~SerialMode
    /\ PD6 = 0
    /\ TCD0.ENABLE = 0

\* C10 as stated: in PWM/DIR mode, after TLE9201SG_START returns TCD0 is
\* enabled and PD6 is low.
C10_StartEnablesAndClearsDisable ==
    (Returned("START") /\ ~SerialMode) => TCD0.ENABLE = 1 /\ PD6 = 0

\* C10 amended: in PWM/DIR mode, after TLE9201SG_START returns TCD0 is
\* enabled; PD6 is low as well when TLE9201SG_ON was called right before it.
C10_OnStartEnablesAndClearsDisable ==
    /\ (Returned("START") /\ ~SerialMode) => TCD0.ENABLE = 1
    /\ (Returned("START") /\ prevOp = "ON" /\ ~SerialMode) => PD6 = 0

\* ON then START returned in PWM/DIR mode
C10_Witness ==
    /\ Returned("START")
    /\ prevOp = "ON"
    /\ ~SerialMode
    /\ TCD0.ENABLE = 1
    /\ PD6 = 0


\* the step in which the public operation `name` is called
CallStep(name) == pc = "idle" /\ op' = name

\* C11: in PWM/DIR mode a call of TLE9201SG_DIR with 0 or 1 leaves the
\* output-disable line PD6, the PWM bit PD4 and the timer enable as they were.
C11_DirMovesOnlyPD5 ==
    [][(CallStep("DIR") /\ ~SerialMode)
          => /\ Bit(PORTD_OUT', 6) = Bit(PORTD_OUT, 6)
             /\ Bit(PORTD_OUT', 4) = Bit(PORTD_OUT, 4)
             /\ TCD0'.ENABLE = TCD0.ENABLE]_vars


\* C12: in serial mode a call of TLE9201SG_DIR(d) sends nothing and changes
\* only the cached direction bit, to d; the bit stays d until the next byte
\* is sent, that byte is a control write, and its direction bit is d.
C12_DirAppliedOnNextWrite ==
    [][/\ (CallStep("DIR") /\ SerialMode)
            => /\ SPI0' = SPI0
               /\ PA7' = PA7
               /\ log' = <<>>
               /\ [TLE9201SG' EXCEPT !.SDIR = TLE9201SG.SDIR] = TLE9201SG
               /\ TLE9201SG'.SDIR = dirReq'
       /\ (dirReq # -1) => (TLE9201SG.SDIR = dirReq)
       /\ (dirReq # -1 /\ SPI0'.TX # SPI0.TX /\ SPI0'.TX # -1)
            => /\ pc = "W_send"
               /\ CommandOf(SPI0'.TX) \in {WR_CTRL, WR_CTRL_RD_DIA}
               /\ Bit(SPI0'.TX, 1) = dirReq]_vars

\* the first byte of a START that follows DIR(1) is on the bus with direction bit 1
C12_Witness ==
    /\ op = "START"
    /\ prevOp = "DIR"
    /\ SerialMode
    /\ pc = "W_wait"
    /\ Len(log) = 1
    /\ Bit(log[1].v, 1) = 1
    /\ TLE9201SG.SDIR = 1
    /\ dev.ctrl % 4 < 2


\* what the motor sees of the SPI-mode driver: the control register of the device
SerialEnabled == Bit(dev.ctrl, 3) = 1 /\ Bit(dev.ctrl, 2) = 1

SerialDirection == Bit(dev.ctrl, 1)

\* what the motor sees of the PWM/DIR-mode driver: the DIS and DIR pins
PinsEnabled == PD6 = 0

PinsDirection == Bit(PORTD_OUT, 5)

\* C13: after initialisation and any sequence of start, stop and direction
\* calls, the outputs are enabled in SPI mode exactly when they are enabled
\* in PWM/DIR mode, and the direction is the same in both.
C13_BackEndsAgree ==
    (pc = "twin" /\ op # "none")
        => /\ SerialEnabled <=> PinsEnabled
           /\ SerialDirection = PinsDirection


DutyInRange == 0 < TLE9201SG.duty_cycle /\ TLE9201SG.duty_cycle < 100

\* C14: a first TLE9201SG_Mode_init with a duty cycle outside (0,100) makes
\* no SPI transfer and no timer write; it does not return as an
\* initialisation that went through.
C14_BadDutyRejectedBeforeHardware ==
    (op = "Mode_init" /\ inits = 1 /\ ~DutyInRange)
        => /\ Count("xfer") = 0
           /\ Count("tcd") = 0
           /\ pc # "idle"


\* 1/pwm_freq - TLE9201SG_SPI_TIME_COMPENSATION is a positive time
PeriodPositive ==
    /\ TLE9201SG.pwm_freq > 0
    /\ 1000000 - TLE9201SG_SPI_TIME_COMPENSATION * TLE9201SG.pwm_freq > 0

\* C15: with a period that is not positive (pwm_freq = 0 included) the
\* SPI-mode initialisation stores no on/off tick counts.
C15_NonPositivePeriodRejected ==
    ~PeriodPositive
        => /\ Count("ticks") = 0
           /\ TLE9201SG.on = 0
           /\ TLE9201SG.off = 0
           /\ pc # "t_done"

\* num/den rounded to the nearest whole number (num >= 0, den > 0)
Nearest(num, den) == (2 * num + den) \div (2 * den)

\* C16: with a positive period the stored tick counts are the exact
\* quotients on_seconds / time_base and (period - on_seconds) / time_base
\* rounded to the nearest whole number.
C16_TicksRoundedToNearest ==
    (pc = "t_done" /\ PeriodPositive)
        => /\ TLE9201SG.on = Nearest(TickNum(CLKCTRL, TLE9201SG.pwm_freq, TLE9201SG.duty_cycle),
                                     TickDen(TLE9201SG.pwm_freq))
           /\ TLE9201SG.off = Nearest(TickNum(CLKCTRL, TLE9201SG.pwm_freq, 100 - TLE9201SG.duty_cycle),
                                      TickDen(TLE9201SG.pwm_freq))


\* C17: whenever TLE9201SG_START runs its holds in serial mode, the hold
\* lengths are TLE9201SG.on and TLE9201SG.off, and these are the tick counts
\* of the configured pwm_freq and duty_cycle at the running clock, which
\* serial-mode initialisation has stored before the first start.
C17_StartHoldsThePlan ==
    (op = "START" /\ SerialMode)
        => /\ (Len(Bus) >= 2) => /\ Bus[2] = Event("hold", TLE9201SG.on)
                                 /\ TLE9201SG.on \in OnTicks(CLKCTRL, TLE9201SG)
           /\ (Len(Bus) >= 4) => /\ Bus[4] = Event("hold", TLE9201SG.off)
                                 /\ TLE9201SG.off \in OffTicks(CLKCTRL, TLE9201SG)


\* the driver is in `while (!(SPI0.INTFLAGS & SPI_RXCIF_bm));` and the flag is clear
WaitingForFlag == pc \in {"W_wait", "R_wait"} /\ ~SPI0.RXCIF

\* C18: a transfer whose completion flag does not assert is not sent again,
\* and the wait of TLE9201SG_Write / TLE9201SG_Read does not depend on the
\* flag to end: while the flag is clear the driver still has a step that
\* leaves the wait and takes the operation back to its caller.
C18_WaitEndsWithoutTheFlag ==
    WaitingForFlag => ENABLED (Write_store \/ Read_next)


\* main executes `if (!(PORTF.IN & PIN5_bm))`
SamplesPF5 == main.at = "pf5" /\ main'.at # "pf5"

\* C19: in the control loop in serial mode PF5 is read only between
\* TLE9201SG_START invocations: a START that has begun returns with both
\* transfers and both holds done, and only TLE9201SG_DIR follows it before
\* the line is read again; START is called only after the line was read
\* low; when it was read high the loop goes on to TLE9201SG_STOP and
\* TLE9201SG_OFF, and calls nothing else until the line is read again.
C19_StopSeenBetweenStarts ==
    [][/\ SamplesPF5 => /\ pc = "idle"
                        /\ op \in {"Mode_init", "DIR", "OFF"}
                        /\ main'.pf5 = PORTF_IN.PF5
                        /\ (PORTF_IN.PF5 = 1) => (main'.at = "STOP")
       /\ (op = "START" /\ op' # "START") => (OnOffCycle /\ op' = "DIR")
       /\ (op = "DIR" /\ prevOp = "START") => (pc' = "idle" /\ op' \in {"DIR", "ON", "STOP"})
       /\ (op # "START" /\ op' = "START") => (main.pf5 = 0 /\ op = "ON")
       /\ (op # "none" /\ main.pf5 = 1 /\ op' # op) => (op' \in {"STOP", "OFF"})
       /\ (op = "STOP" /\ op' # op) => (main.pf5 = 1 /\ op' = "OFF")]_vars

\* PF5 was read high after an iteration that ran TLE9201SG_START (the
\* device still has its enable bit), and TLE9201SG_STOP has been called
C19_Witness ==
    /\ op = "STOP"
    /\ prevOp = "DIR"
    /\ main.pf5 = 1
    /\ main.at = "OFF"
    /\ Bit(dev.ctrl, 2) = 1


\* the last two frames the device has processed were both WR_CTRL_RD_DIA
TwoDiagWrites == procd[1].cmd = WR_CTRL_RD_DIA /\ procd[2].cmd = WR_CTRL_RD_DIA

\* C20: each TLE9201SG_Write puts exactly one byte on the bus (one transfer
\* when it starts, none while it waits or when it stores), and with a device
\* that answers one transfer late the diagnosis byte cached by the second
\* and every later WR_CTRL_RD_DIA write in a row is the device's diagnosis
\* register as it stood when the write before it was processed.
C20_DiagLagsOneTransfer ==
    [][/\ (pc = "W_send" /\ pc' # pc)
            => /\ pc' = "W_wait"
               /\ log' = Append(log, Event("xfer", WriteByte(frame.command, TLE9201SG)))
       /\ (pc = "W_wait" /\ pc' = pc) => (log' = log)
       /\ (pc = "W_wait" /\ pc' # pc)
            => /\ pc' = frame.ret
               /\ Len(log') = Len(log) + 1
               /\ log'[Len(log')].e # "xfer"
       /\ (DiagDecodeStep /\ TwoDiagWrites) => (TLE9201SG'.diag = procd[1].dia)]_vars

\* the second write of a TLE9201SG_START has returned a diagnosis byte that
\* is the register of one transfer ago and no longer the device's
C20_Witness ==
    /\ pc = "ST_off"
    /\ TwoDiagWrites
    /\ TLE9201SG.diag = procd[1].dia
    /\ procd[1].dia # procd[2].dia
    /\ TLE9201SG.diag # dev.dia
    /\ Count("xfer") = 2


\* the cached control register and the bits decoded from it
ControlCache(s) == <<s.control, s.CMD, s.OLDIS, s.SIN, s.SEN, s.SDIR, s.SPWM>>

\* the cached diagnosis register, the bits decoded from it and the fault code
DiagCache(s) == <<s.diag, s.EN, s.OT, s.TV, s.CL, s.DIA, s.Fault>>

\* C21: TLE9201SG_Write routes the response by the class of the command it
\* was called with: RD_CTRL and WR_CTRL store it in the control cache and
\* leave the diagnosis cache alone; RD_DIA, RES_DIA and WR_CTRL_RD_DIA store
\* it in the diagnosis cache and leave the control cache alone.
C21_WriteRoutesByClass ==
    [][(pc = "w_in" /\ pc' = "w_done")
          => /\ (frame'.command \in {RD_CTRL, WR_CTRL})
                  => /\ TLE9201SG'.control = SPI0'.DATA
                     /\ DiagCache(TLE9201SG') = DiagCache(TLE9201SG)
             /\ (frame'.command \in {RD_DIA, RES_DIA, WR_CTRL_RD_DIA})
                  => /\ TLE9201SG'.diag = SPI0'.DATA
                     /\ ControlCache(TLE9201SG') = ControlCache(TLE9201SG)]_vars


ReadReturns == pc = "R_wait" /\ pc' = frame.ret

\* C23: TLE9201SG_Read(command, 0) makes three transfers of `command` on its
\* first call and two on every later call, and returns the response of the
\* last; with a device that answers one transfer late the byte returned is
\* the device's result for `command` (its revision for RD_REV, its control
\* register for RD_CTRL, a diagnosis byte for RD_DIA), not the result of
\* the command sent before the call.
C23_ReadReturnsOwnResult ==
    [][ReadReturns
          => /\ Count("xfer") = IF firsttime = 0 THEN 3 ELSE 2
             /\ \A k \in 1 .. Len(log) : log[k] = Event("xfer", frame.command)
             /\ firsttime' = 1
             /\ procd[1].cmd = frame.command
             /\ SPI0.cls = ClassOf(frame.command)
             /\ (frame.command = RD_REV) => (SPI0.DATA = dev.rev)
             /\ (frame.command = RD_CTRL) => (SPI0.DATA = dev.ctrl)
             /\ (frame.command = RD_DIA) => (SPI0.DATA = procd[1].dia)]_vars

\* a later call TLE9201SG_Read(RD_CTRL, 0) has returned the control register
\* after two transfers, and the call before it was for another register
C23_Witness ==
    /\ Returned("Read")
    /\ prevOp = "Read"
    /\ firsttime = 1
    /\ Count("xfer") = 2
    /\ log[1].v = RD_CTRL
    /\ SPI0.cls = "ctrl"
    /\ SPI0.DATA = dev.ctrl
    /\ dev.ctrl = 21
    /\ procd[1].cmd = RD_CTRL


C25_ReferencePlan ==
    (/\ pc = "t_done"
     /\ CLKCTRL = 24000000
     /\ TLE9201SG.pwm_freq = 20000
     /\ TLE9201SG.duty_cycle = 10)
        => /\ 10 * TLE9201SG_SPI_TIME_COMPENSATION = 155
           /\ TLE9201SG.on = 21
           /\ TLE9201SG.off = 186


\* C26: for every byte d decoded by TLE9201SG_Sort_Diagnosis, EN is bit 7
\* of d, OT bit 6, TV bit 5, CL bit 4 and DIA the low four bits; each flag
\* is 0 or 1, DIA is in 0..15, and the fields put together give d again.
C26_DiagnosisFields ==
    pc = "codec_dia"
        => LET d == SPI0.DATA
               s == TLE9201SG
           IN  /\ s.diag = d
               /\ s.EN = d \div 128
               /\ s.OT = (d % 128) \div 64
               /\ s.TV = (d % 64) \div 32
               /\ s.CL = (d % 32) \div 16
               /\ s.DIA = d % 16
               /\ {s.EN, s.OT, s.TV, s.CL} \subseteq {0, 1}
               /\ s.DIA \in 0 .. 15
               /\ s.EN * 128 + s.OT * 64 + s.TV * 32 + s.CL * 16 + s.DIA = d

\* the byte 0xA5 has been decoded: EN and TV set, OT and CL clear, code 5
C26_Witness ==
    /\ pc = "codec_dia"
    /\ SPI0.DATA = 165
    /\ TLE9201SG.EN = 1 /\ TLE9201SG.OT = 0 /\ TLE9201SG.TV = 1 /\ TLE9201SG.CL = 0
    /\ TLE9201SG.DIA = 5


\* main stands at the head of its loop, between two iterations
LoopBoundary == main.at = "pf5" /\ pc = "idle"

\* C27: in the control loop in serial mode, when the stop branch
\* (TLE9201SG_STOP, TLE9201SG_OFF) has run, the control byte the device
\* received last has SEN = 0: at every boundary between two iterations at
\* which the cached SEN is 0 the device's outputs are disabled.
C27_StopBranchDisablesDevice ==
    /\ (Returned("OFF") /\ prevOp = "STOP" /\ SerialMode) => (Bit(dev.ctrl, 2) = 0)
    /\ (LoopBoundary /\ SerialMode /\ TLE9201SG.SEN = 0) => (Bit(dev.ctrl, 2) = 0)


\* C28: in PWM/DIR mode under the control loop of the earlier main, at
\* every boundary between two iterations the disable line PD6 is high
\* exactly when the timer TCD0 is disabled, whatever PF5 and PF6 did.
C28_DisableLineMatchesTimer ==
    (LoopBoundary /\ ~SerialMode) => (PD6 = 1 <=> TCD0.ENABLE = 0)

\* both kinds of boundary have occurred: after a run iteration (ON, START,
\* DIR) the line is low and the timer enabled
C28_Witness ==
    /\ LoopBoundary
    /\ ~SerialMode
    /\ op = "DIR"
    /\ prevOp = "START"
    /\ PD6 = 0
    /\ TCD0.ENABLE = 1


\* a byte is being exchanged: between SPI0_Start and SPI0_Stop of one round
TransferInProgress == pc \in {"W_wait", "R_wait"}

\* C29: from the end of GPIO_init on, the slave-select line PA7 is high
\* whenever no transfer is in progress and low while a byte is exchanged,
\* and it is high on return from TLE9201SG_Mode_init, TLE9201SG_START,
\* TLE9201SG_STOP and TLE9201SG_OFF.
C29_SelectHighOutsideTransfers ==
    /\ ~TransferInProgress => (PA7 = 1)
    /\ (SPI0.TX # -1) => (PA7 = 0)
    /\ (pc = "idle" /\ op \in {"Mode_init", "START", "STOP", "OFF"}) => (PA7 = 1)


\* a step that belongs to one of the operations that follow initialisation
InMotorOp == op' \in {"ON", "START", "STOP", "OFF", "DIR"}

\* C30: TLE9201SG.mode changes only in the call step of TLE9201SG_Mode_init;
\* ON, START, STOP, OFF and DIR in serial mode write neither PORTD.OUT nor
\* the timer's enable bit, and in PWM/DIR mode they send no byte and leave
\* the cached control register and its bits as they were.
C30_BackEndsIsolated ==
    [][/\ (TLE9201SG'.mode # TLE9201SG.mode) => (pc = "idle" /\ op' = "Mode_init")
       /\ (InMotorOp /\ SerialMode)
            => /\ PORTD_OUT' = PORTD_OUT
               /\ TCD0'.ENABLE = TCD0.ENABLE
               /\ \A k \in 1 .. Len(log') : log'[k].e # "tcd"
       /\ (InMotorOp /\ ~SerialMode)
            => /\ SPI0' = SPI0
               /\ PA7' = PA7
               /\ ControlCache(TLE9201SG') = ControlCache(TLE9201SG)
               /\ \A k \in 1 .. Len(log') : log'[k].e # "xfer"]_vars

\* after a session in serial mode that left the cached SEN at 1, the driver
\* was initialised again in PWM/DIR mode and TLE9201SG_START has enabled the
\* timer
C30_Witness ==
    /\ Returned("START")
    /\ ~SerialMode
    /\ inits = 2
    /\ TLE9201SG.SEN = 1
    /\ TCD0.ENABLE = 1
    /\ Count("tcd") = 1


\* the tick counts are the quotients themselves, with nothing lost in the
\* 16-bit members
TicksExact ==
    /\ TickNum(CLKCTRL, TLE9201SG.pwm_freq, TLE9201SG.duty_cycle)
           \div TickDen(TLE9201SG.pwm_freq) < 65536
    /\ TickNum(CLKCTRL, TLE9201SG.pwm_freq, 100 - TLE9201SG.duty_cycle)
           \div TickDen(TLE9201SG.pwm_freq) < 65536

\* C31: at a 24 MHz clock, for every pwm_freq in 1..65535 and every duty
\* cycle strictly between 0 and 100, the on and off tick counts that
\* TLE9201SG_START hands to the busy-wait delay lie in 1..65535: they fit
\* the 16-bit members without wrapping and are never 0.
C31_TicksFitAndNonZero ==
    (/\ pc = "t_done"
     /\ CLKCTRL = F_OSCHF
     /\ TLE9201SG.pwm_freq \in 1..65535
     /\ TLE9201SG.duty_cycle > 0
     /\ TLE9201SG.duty_cycle < 100)
        => /\ TicksExact
           /\ TLE9201SG.on \in 1..65535
           /\ TLE9201SG.off \in 1..65535


----------------------------------------------------------------------------
(* The compare values of the timer: PWM_init of TCD.c, from call to return *)

\* TCD_prescaler after the switch on TCD0.CTRLA & TCD_CNTPRES_gm
PrescalerValues == {1, 4, 32}

\* values of uint16_t pwm_freq handed over as target_freq
PwmFreq == {1, 100, 183, 184, 10000, 20000, 65535}

\* values of duty_cycle, in percent
PwmDuty == {1, 10, 50, 90, 99}

\* uint16_t cmpbclr = (CLOCK_read() / (TCD_prescaler * target_freq * 2)) - 1:
\* the low 16 bits of the 32-bit unsigned result
Cmpbclr(clock, prescaler, target_freq) ==
    (clock \div (prescaler * target_freq * 2) - 1) % 65536

\* uint16_t cmpaset = (uint16_t)(cmpbclr * (duty_cycle / 100.0f)) + 1
Cmpaset(cmpbclr, duty_cycle) ==
    {(q + 1) % 65536 : q \in ToU16(cmpbclr * duty_cycle, 100)}

\* uint16_t cmpbset = cmpbclr - cmpaset - 1
Cmpbset(cmpbclr, cmpaset) == (cmpbclr - cmpaset - 1) % 65536

PwmInit ==
    /\ TLE9201SG \in {[ResetData EXCEPT !.pwm_freq = f, !.duty_cycle = d] :
                          f \in PwmFreq, d \in PwmDuty}
    /\ CLKCTRL \in ClockValues
    /\ TCD0 \in {[ENABLE |-> 0, ENRDY |-> TRUE, CNTPRES |-> p,
                  CMPBCLR |-> 0, CMPBSET |-> 0, CMPASET |-> 0] : p \in PrescalerValues}
    /\ main = [at |-> "any", pf5 |-> 1, pf6 |-> 1]
    /\ PORTF_IN = [PF5 |-> 1, PF6 |-> 1]
    /\ firsttime = 0
    /\ pc = "p_in"
    /\ frame = NoFrame
    /\ SPI0 = [DATA |-> 0, RXCIF |-> FALSE, TX |-> -1, cls |-> "reset"]
    /\ PA7 = 0
    /\ PORTD_OUT = 0
    /\ dev \in {d \in DevInit : d.cls = "dia" /\ d.ctrl = 0 /\ d.dia = 255}
    /\ op = "none"
    /\ prevOp = "none"
    /\ log = <<>>
    /\ src = [control |-> "reset", diag |-> "reset"]
    /\ inits = 0
    /\ dirReq = -1
    /\ procd = <<NoProc, NoProc>>

\* void PWM_init(uint32_t target_freq, float duty_cycle)
PWM_init(target_freq, duty_cycle) ==
    /\ pc = "p_in"
    /\ LET cmpbclr == Cmpbclr(CLKCTRL, TCD0.CNTPRES, target_freq)
       IN  \E cmpaset \in Cmpaset(cmpbclr, duty_cycle) :
               TCD0' = [TCD0 EXCEPT !.CMPBCLR = cmpbclr,
                                    !.CMPBSET = Cmpbset(cmpbclr, cmpaset),
                                    !.CMPASET = cmpaset]
    /\ pc' = "p_done"
    /\ op' = "PWM_init"
    /\ UNCHANGED <<TLE9201SG, firsttime, frame, SPI0, PA7, PORTD_OUT, dev, prevOp, log, src,
                   inits, main, PORTF_IN, dirReq, procd, CLKCTRL>>

\* the call in TLE9201SG_Mode_init: PWM_init(TLE9201SG.pwm_freq, TLE9201SG.duty_cycle)
PwmNext == PWM_init(TLE9201SG.pwm_freq, TLE9201SG.duty_cycle)

PwmSpec == PwmInit /\ [][PwmNext]_vars

\* C32: in PWM_init, at a 24 MHz timer clock with prescaler 1, for every
\* target frequency in 1..65535 and every duty cycle strictly between 0
\* and 100, the compare values satisfy 0 <= CMPBSET < CMPBCLR and
\* 0 < CMPASET <= CMPBCLR, and neither clock/(prescaler*freq*2) - 1 nor
\* cmpbclr - cmpaset - 1 wraps modulo 2^16.
C32_CompareValuesOrdered ==
    (/\ pc = "p_done"
     /\ CLKCTRL = F_OSCHF
     /\ TCD0.CNTPRES = 1
     /\ TLE9201SG.pwm_freq \in 1..65535
     /\ TLE9201SG.duty_cycle > 0
     /\ TLE9201SG.duty_cycle < 100)
        => /\ 0 <= TCD0.CMPBSET
           /\ TCD0.CMPBSET < TCD0.CMPBCLR
           /\ 0 < TCD0.CMPASET
           /\ TCD0.CMPASET <= TCD0.CMPBCLR
           /\ TCD0.CMPBCLR = CLKCTRL \div (TCD0.CNTPRES * TLE9201SG.pwm_freq * 2) - 1
           /\ TCD0.CMPBSET = TCD0.CMPBCLR - TCD0.CMPASET - 1

====
